---- MODULE Spec2Model ----
(***************************************************************************)
(* Verification dialogue of oorona/serversage:                             *)
(*   services/verification_flow_service.py  (VerificationFlowService)      *)
(*   llm_integration/llm_client.py          (LLMClient)                    *)
(* Every invocation of start_verification_process is a task; a task        *)
(* yields to the other tasks at the awaits of the code (asyncio,           *)
(* single-threaded cooperative scheduling).                                *)
(***************************************************************************)
EXTENDS Integers, Sequences, FiniteSets, TLC

\* ------------------------------------------------------------------------
\* Bounds of the model
\* ------------------------------------------------------------------------
NumUsers == 1
MaxTasks == 2
NumSkillRoles == 2
MaxReplies == 4
NumBatchMembers == 2
NumConcurrentUsers == 2

\* ------------------------------------------------------------------------
\* Program constants
\* ------------------------------------------------------------------------
VERIFICATION_RETRIES == 3
VERIFIED_ROLE_ID == 10
UNVERIFIED_ROLE_ID == 11
VERIFICATION_IN_PROGRESS_ROLE_ID == 12
max_attempts == 2

Users == 1..NumUsers
Tasks == 1..MaxTasks
NoTask == 0
NoUser == 0
SkillRoles == 1..NumSkillRoles
StatusRoles == {VERIFIED_ROLE_ID, UNVERIFIED_ROLE_ID, VERIFICATION_IN_PROGRESS_ROLE_ID}
AllRoles == SkillRoles \cup StatusRoles

VARIABLES
    active_verifications,      \* user -> task whose state object is stored (NoTask: no entry)
    pc,                        \* task -> position in the code
    member,                    \* task -> the member argument
    retries_left,              \* task -> user_state['retries_left']
    conversation_history,      \* task -> user_state['conversation_history']
    is_update_session,         \* task -> user_state['is_update_session']
    request,                   \* task -> guidance request in flight
    last_proposed_classification, \* task -> user_state['last_proposed_classification']
    conclude_args,             \* task -> arguments and locals of _conclude_verification
    outcome,                   \* task -> what the task has done so far (observation)
    replies,                   \* task -> number of user replies processed
    member_roles,              \* user -> roles held on the platform
    guild_roles,               \* roles that guild.get_role resolves
    categorized_server_roles,  \* bot.categorized_server_roles
    server_roles_map,          \* ids of bot.server_roles_map
    user_verification_schema,  \* LLMClient.user_verification_schema loaded
    prompt_file_ok,            \* the verification prompt template can be read
    settings,                  \* the configured settings (VERIFICATION_RETRIES)
    is_first_user_message_in_flow, \* task -> local flag of _handle_dm_conversation
    turn                       \* task -> the last processed turn (observation)

vars == <<active_verifications, pc, member, retries_left, conversation_history,
          is_update_session, request, last_proposed_classification, conclude_args, outcome,
          replies, member_roles, guild_roles, categorized_server_roles,
          server_roles_map, user_verification_schema, prompt_file_ok, settings,
          is_first_user_message_in_flow, turn>>

\* ------------------------------------------------------------------------
\* LLM Gateway: LLMClient._make_llm_request and get_verification_guidance
\* ------------------------------------------------------------------------
\* The decoded arguments of the function call: a field that is absent is
\* "missing"; user_has_confirmed may also hold a non-boolean ("string").
NullClassification == [is_null |-> TRUE, Programming_Language |-> <<>>, Operating_System |-> <<>>]

Classifications ==
    {NullClassification,
     [is_null |-> FALSE, Programming_Language |-> <<1>>, Operating_System |-> <<>>],
     [is_null |-> FALSE, Programming_Language |-> <<1, 1>>,
      Operating_System |-> <<NumSkillRoles>>],
     [is_null |-> FALSE, Programming_Language |-> <<UNVERIFIED_ROLE_ID>>,
      Operating_System |-> <<>>]}

\* A category value as it is decoded from the arguments: a JSON list of
\* items (an integer, a string that int() converts such as "1", null, or a
\* string that int() rejects), or a value that is not a list.
RawItem(kind, value) == [kind |-> kind, value |-> value]

RECURSIVE RawInts(_)
RawInts(ids) ==
    IF ids = <<>> THEN <<>> ELSE <<RawItem("int", Head(ids))>> \o RawInts(Tail(ids))

RawList(items) == [is_list |-> TRUE, items |-> items]

NotAList == [is_list |-> FALSE, items |-> <<>>]

\* "isinstance(value, list)" with every item an int
IsListOfIntegers(raw) ==
    raw.is_list /\ \A i \in 1..Len(raw.items) : raw.items[i].kind = "int"

RECURSIVE ConvertedIds(_)
ConvertedIds(items) ==
    IF items = <<>> THEN <<>>
    ELSE IF Head(items).kind = "none" THEN ConvertedIds(Tail(items))
    ELSE <<Head(items).value>> \o ConvertedIds(Tail(items))

\* Lines 549-559: a list is replaced by
\* "[int(rid) for rid in value if rid is not None]", or by [] when int()
\* raises ValueError/TypeError for one of its items; a value that is not a
\* list is replaced by [].
coerce_category(raw) ==
    IF ~raw.is_list THEN <<>>
    ELSE IF \E i \in 1..Len(raw.items) : raw.items[i].kind = "text" THEN <<>>
    ELSE ConvertedIds(raw.items)

\* the decoded form of a classification whose categories are lists of integers
RawOf(c) ==
    [is_null |-> c.is_null, Programming_Language |-> RawList(RawInts(c.Programming_Language)),
     Operating_System |-> RawList(RawInts(c.Operating_System))]

\* Lines 543-559: a classification that is absent or null stays None, every
\* category of a dict is coerced.
coerce_classification(raw) ==
    IF raw.is_null THEN NullClassification
    ELSE [is_null |-> FALSE,
          Programming_Language |-> coerce_category(raw.Programming_Language),
          Operating_System |-> coerce_category(raw.Operating_System)]

\* classifications with a category that is not a list of integers
MalformedClassifications ==
    {[is_null |-> FALSE, Programming_Language |-> RawList(<<RawItem("numeric_string", 1)>>),
      Operating_System |-> RawList(<<>>)],
     [is_null |-> FALSE,
      Programming_Language |-> RawList(<<RawItem("int", 1), RawItem("none", 0)>>),
      Operating_System |-> RawList(<<>>)],
     [is_null |-> FALSE, Programming_Language |-> RawList(<<RawItem("int", 1)>>),
      Operating_System |-> NotAList],
     [is_null |-> FALSE, Programming_Language |-> RawList(<<RawItem("int", 1)>>),
      Operating_System |-> RawList(<<RawItem("int", NumSkillRoles), RawItem("text", 0)>>)]}

RawClassifications == {RawOf(c) : c \in Classifications} \cup MalformedClassifications

ValidArguments ==
    [message_to_user : {"llm_text"}, is_complete : {"true", "false"},
     user_has_confirmed : {"true", "false"}, classification : RawClassifications,
     unassignable_skills : {<<>>}]

ViolatingArguments ==
    [message_to_user : {"llm_text", "missing"}, is_complete : {"true", "missing"},
     user_has_confirmed : {"true", "missing", "string"},
     classification : {RawOf(NullClassification)}, unassignable_skills : {<<>>}]
    \ ValidArguments

\* Arguments with unassignable_skills: a list of {skill, category} objects
\* ("pair"), possibly with an entry that is a bare string ("text"); the
\* acceptance test of lines 541-542 does not look at the field.
UnassignableArguments ==
    {[message_to_user |-> "llm_text", is_complete |-> "false", user_has_confirmed |-> "false",
      classification |-> RawOf(NullClassification), unassignable_skills |-> <<"pair", "pair">>],
     [message_to_user |-> "llm_text", is_complete |-> "true", user_has_confirmed |-> "true",
      classification |-> RawOf(NullClassification), unassignable_skills |-> <<"pair">>],
     [message_to_user |-> "llm_text", is_complete |-> "false", user_has_confirmed |-> "false",
      classification |-> RawOf(NullClassification), unassignable_skills |-> <<"pair", "text">>]}

\* One response of the backend to a guidance request: the outcome of each HTTP
\* attempt, whether the message holds a function call named propose_user_roles,
\* whether its arguments are JSON, and the decoded arguments.
NoArguments ==
    [message_to_user |-> "missing", is_complete |-> "missing",
     user_has_confirmed |-> "missing", classification |-> RawOf(NullClassification),
     unassignable_skills |-> <<>>]

BackendResponses ==
    {[attempts |-> a, function_call |-> FALSE, arguments_json |-> FALSE, arguments |-> NoArguments] :
        a \in {<<"http_status_error">>, <<"json_decode_error">>, <<"missing_structure">>,
               <<"read_timeout", "read_timeout">>, <<"read_timeout", "http_status_error">>,
               <<"ok">>,
               \* what a further attempt would have met, had it been made
               <<"http_status_error", "ok">>, <<"json_decode_error", "ok">>,
               <<"missing_structure", "ok">>, <<"request_error", "ok">>,
               <<"read_timeout", "read_timeout", "ok">>}}
    \cup {[attempts |-> <<"ok">>, function_call |-> TRUE, arguments_json |-> FALSE,
           arguments |-> NoArguments]}
    \cup {[attempts |-> <<"ok">>, function_call |-> TRUE, arguments_json |-> TRUE,
           arguments |-> g] :
           g \in ValidArguments \cup ViolatingArguments \cup UnassignableArguments}
    \cup {[attempts |-> <<"read_timeout", "ok">>, function_call |-> TRUE,
           arguments_json |-> TRUE, arguments |-> g] :
           g \in {v \in ValidArguments : v.classification = RawOf(NullClassification)}}

\* every attempt the backend would answer is made
AttemptsMade_all(resp) == resp.attempts

\* _make_llm_request: the attempts actually made (a second one only after a
\* timeout, at most max_attempts) and whether response data is returned.
AttemptsMade(resp) ==
    IF resp.attempts[1] = "read_timeout" /\ Len(resp.attempts) >= max_attempts
    THEN SubSeq(resp.attempts, 1, max_attempts)
    ELSE SubSeq(resp.attempts, 1, 1)

make_llm_request(resp) ==
    LET made == AttemptsMade(resp) IN made[Len(made)] = "ok"

NoGuidance ==
    [none |-> TRUE, fallback |-> FALSE, message_to_user |-> "none", is_complete |-> FALSE,
     user_has_confirmed |-> FALSE, classification |-> NullClassification,
     unassignable_skills |-> <<>>]

fallback_response_defined ==
    [none |-> FALSE, fallback |-> TRUE, message_to_user |-> "fallback_text", is_complete |-> FALSE,
     user_has_confirmed |-> FALSE, classification |-> NullClassification,
     unassignable_skills |-> <<>>]

ArgumentsAccepted(g) ==
    /\ g.message_to_user # "missing"
    /\ g.is_complete # "missing"
    /\ g.user_has_confirmed \in {"true", "false"}

\* get_verification_guidance: None when the schema is not loaded, the parsed
\* response when the arguments pass the checks, the fallback response in
\* every other case.
get_verification_guidance(schema_loaded, resp) ==
    IF ~schema_loaded THEN NoGuidance
    ELSE IF /\ make_llm_request(resp)
            /\ resp.function_call
            /\ resp.arguments_json
            /\ ArgumentsAccepted(resp.arguments)
         THEN [none |-> FALSE, fallback |-> FALSE,
               message_to_user |-> resp.arguments.message_to_user,
               is_complete |-> (resp.arguments.is_complete = "true"),
               user_has_confirmed |-> (resp.arguments.user_has_confirmed = "true"),
               classification |-> coerce_classification(resp.arguments.classification),
               unassignable_skills |-> resp.arguments.unassignable_skills]
         ELSE fallback_response_defined

\* Where the value returned by get_verification_guidance comes from: the
\* number of HTTP attempts made for it (none when the schema is not loaded,
\* line 516)
\* and the branch of lines 528-571 that produced it.
GuidanceOrigin(schema_loaded, resp) ==
    [attempts |-> IF schema_loaded THEN Len(AttemptsMade(resp)) ELSE 0,
     response |-> IF ~schema_loaded THEN "schema_not_loaded"
                  ELSE IF ~make_llm_request(resp) THEN "no_response"
                  ELSE IF ~resp.function_call THEN "no_function_call"
                  ELSE IF ~resp.arguments_json THEN "arguments_not_json"
                  ELSE IF ~ArgumentsAccepted(resp.arguments) THEN "violation"
                  ELSE "accepted"]

\* ------------------------------------------------------------------------
\* Role taxonomy and the member's roles
\* ------------------------------------------------------------------------
TaxonomyCategories == {"Programming_Language", "Other"}

\* all_manageable_role_ids / all_bot_managed_skill_ids: every id of every category
all_bot_managed_skill_ids(categorized) ==
    UNION {categorized[c] : c \in TaxonomyCategories}

\* "not self.bot.categorized_server_roles or not self.bot.server_roles_map"
RoleDataMissing(categorized, roles_map) ==
    all_bot_managed_skill_ids(categorized) = {} \/ roles_map = {}

\* _get_member_current_manageable_roles_text: the ids of the member's roles
\* that are in the taxonomy and in the id -> name map
member_manageable_role_ids(roles, categorized, roles_map) ==
    IF RoleDataMissing(categorized, roles_map) THEN {}
    ELSE {r \in roles : r \in all_bot_managed_skill_ids(categorized) /\ r \in roles_map}

\* available_roles_text_list of get_verification_guidance: for every category,
\* "for rid in role_ids if rid in available_roles_map"
available_roles_text_list(categorized, roles_map) ==
    {rid \in all_bot_managed_skill_ids(categorized) : rid \in roles_map}

\* _update_server_roles_map_from_categorized: ids of the taxonomy that resolve
update_server_roles_map(categorized, live) ==
    {r \in all_bot_managed_skill_ids(categorized) : r \in live}

\* ------------------------------------------------------------------------
\* Conclusion Reconciler: the role sets of _conclude_verification
\* ------------------------------------------------------------------------
SeqToSet(s) == {s[i] : i \in 1..Len(s)}

\* the first category taken for the whole classification
Flatten_first_category(classification) ==
    IF classification.is_null THEN {}
    ELSE SeqToSet(classification.Programming_Language)

\* assigned_skill_role_ids of the confirming guidance, flattened
Flatten(classification) ==
    IF classification.is_null THEN {}
    ELSE SeqToSet(classification.Programming_Language)
         \cup SeqToSet(classification.Operating_System)

\* skill_roles_to_assign: the flattened ids that guild.get_role resolves
skill_roles_to_assign(classification, live) ==
    {rid \in Flatten(classification) : rid \in live}

\* a reconciler that keeps the prior skill roles
roles_to_remove_final_union(success, roles, assigned, categorized, live) ==
    {r \in roles : r = VERIFICATION_IN_PROGRESS_ROLE_ID
                   \/ (success /\ r = UNVERIFIED_ROLE_ID)}

roles_to_remove_final(success, roles, assigned, categorized, live) ==
    LET inprogress == IF VERIFICATION_IN_PROGRESS_ROLE_ID \in live
                         /\ VERIFICATION_IN_PROGRESS_ROLE_ID \in roles
                      THEN {VERIFICATION_IN_PROGRESS_ROLE_ID} ELSE {}
        managed == all_bot_managed_skill_ids(categorized)
    IN  IF success /\ VERIFIED_ROLE_ID \in live
        THEN inprogress
             \cup (IF UNVERIFIED_ROLE_ID \in live /\ UNVERIFIED_ROLE_ID \in roles
                   THEN {UNVERIFIED_ROLE_ID} ELSE {})
             \cup {r \in roles : r \in managed /\ r \notin assigned}
        ELSE inprogress

\* every proposed id added, in the taxonomy or not
roles_to_add_final_unfiltered(success, roles, assigned, categorized, live) ==
    IF success /\ VERIFIED_ROLE_ID \in live
    THEN (IF VERIFIED_ROLE_ID \notin roles THEN {VERIFIED_ROLE_ID} ELSE {})
         \cup {r \in assigned : r \notin roles}
    ELSE IF UNVERIFIED_ROLE_ID \in live /\ UNVERIFIED_ROLE_ID \notin roles
    THEN {UNVERIFIED_ROLE_ID} ELSE {}

roles_to_add_final(success, roles, assigned, categorized, live) ==
    LET managed == all_bot_managed_skill_ids(categorized)
        unverified == IF UNVERIFIED_ROLE_ID \in live /\ UNVERIFIED_ROLE_ID \notin roles
                      THEN {UNVERIFIED_ROLE_ID} ELSE {}
    IN  IF success
        THEN IF VERIFIED_ROLE_ID \notin live
             THEN unverified
             ELSE (IF VERIFIED_ROLE_ID \notin roles THEN {VERIFIED_ROLE_ID} ELSE {})
                  \cup {r \in assigned : r \in managed /\ r \in live /\ r \notin roles}
        ELSE unverified

\* final_dm_message_to_send: "none", a system-error text, or the failure
\* explanation that includes the reason
final_dm_message_to_send(success, live) ==
    IF success
    THEN IF VERIFIED_ROLE_ID \notin live THEN "system_error_verified_missing" ELSE "none"
    ELSE IF UNVERIFIED_ROLE_ID \notin live THEN "system_error_unverified_missing"
         ELSE "failure_with_reason"

\* admin_notification_title: decided by success and was_update_session only
admin_notification_title(success, was_update) ==
    IF success THEN (IF was_update THEN "roles_updated" ELSE "new_user_verified")
    ELSE "verification_failed"

\* ------------------------------------------------------------------------
\* State after construction
\* ------------------------------------------------------------------------
NoRequest ==
    [issued |-> FALSE, final |-> FALSE, note |-> "none", retries_left |-> 0,
     available_roles |-> {}]

NoTurn ==
    [processed |-> FALSE, retries_before |-> 0, none |-> FALSE, fallback |-> FALSE,
     user_has_confirmed |-> FALSE, is_complete |-> FALSE, relayed |-> FALSE,
     transition |-> "none", attempts |-> 0, response |-> "none",
     unassignable |-> 0, alerts |-> 0, alerts_sent |-> 0, raised |-> FALSE,
     classification |-> NullClassification]

NoConclude ==
    [success |-> FALSE, reason |-> "none", assigned |-> {}, to_add |-> {}, to_remove |-> {},
     final_dm |-> "none", title |-> "none", message |-> "none", role_calls |-> "none",
     explanations |-> 0, dm_refused |-> FALSE]

NoOutcome == [result |-> "none", last_dm |-> "none"]

\* Taxonomies the bot can hold: read from a categorized-roles file that lists
\* the skill roles only; built by categorize_server_roles, whose 'Other'
\* category receives every guild role the LLM left unassigned.
TaxonomySkillsOnly == [c \in TaxonomyCategories |->
                         IF c = "Programming_Language" THEN SkillRoles ELSE {}]
TaxonomyAllGuildRoles(live) == [c \in TaxonomyCategories |->
                         IF c = "Programming_Language" THEN SkillRoles \cap live
                         ELSE StatusRoles \cap live]

\* Roles a member can hold before any verification: none, unverified, or a
\* verified member with a skill role.
InitialMemberRoles == {{}, {UNVERIFIED_ROLE_ID}, {VERIFIED_ROLE_ID, 1}}

TypeDefaults ==
    /\ active_verifications = [u \in Users |-> NoTask]
    /\ pc = [t \in Tasks |-> "idle"]
    /\ member = [t \in Tasks |-> NoUser]
    /\ retries_left = [t \in Tasks |-> 0]
    /\ conversation_history = [t \in Tasks |-> <<>>]
    /\ is_update_session = [t \in Tasks |-> FALSE]
    /\ request = [t \in Tasks |-> NoRequest]
    /\ last_proposed_classification = [t \in Tasks |-> NullClassification]
    /\ conclude_args = [t \in Tasks |-> NoConclude]
    /\ outcome = [t \in Tasks |-> NoOutcome]
    /\ replies = [t \in Tasks |-> 0]
    /\ is_first_user_message_in_flow = [t \in Tasks |-> FALSE]
    /\ turn = [t \in Tasks |-> NoTurn]

\* What the bot starts with: everything loaded, or one of the schema file, the
\* prompt file and the in-progress role missing; VERIFICATION_RETRIES at its
\* default or set to the least PositiveInt.
StartupStates ==
    {[schema |-> TRUE, prompt |-> TRUE, live |-> AllRoles, retries |-> VERIFICATION_RETRIES],
     [schema |-> FALSE, prompt |-> TRUE, live |-> AllRoles, retries |-> VERIFICATION_RETRIES],
     [schema |-> TRUE, prompt |-> FALSE, live |-> AllRoles, retries |-> VERIFICATION_RETRIES],
     [schema |-> TRUE, prompt |-> TRUE,
      live |-> AllRoles \ {VERIFICATION_IN_PROGRESS_ROLE_ID}, retries |-> VERIFICATION_RETRIES],
     [schema |-> TRUE, prompt |-> TRUE, live |-> AllRoles, retries |-> 1],
     [schema |-> FALSE, prompt |-> TRUE, live |-> AllRoles, retries |-> 1]}

Init ==
    /\ TypeDefaults
    /\ \E s \in StartupStates :
         /\ guild_roles = s.live
         /\ user_verification_schema = s.schema
         /\ prompt_file_ok = s.prompt
         /\ settings = [VERIFICATION_RETRIES |-> s.retries]
    /\ categorized_server_roles = TaxonomyAllGuildRoles(guild_roles)
    /\ server_roles_map = update_server_roles_map(categorized_server_roles, guild_roles)
    /\ member_roles \in [Users -> InitialMemberRoles]

\* ------------------------------------------------------------------------
\* _conclude_verification, lines 376-474: up to its first await
\* ------------------------------------------------------------------------
\* remove_roles awaited whatever the sets hold
AfterSets_always_calls(a) == "conclude_remove"

\* the next await of the role application: remove_roles, add_roles, the
\* final DM, or the admin notification
AfterSets(a) ==
    IF a.to_remove # {} THEN "conclude_remove"
    ELSE IF a.to_add # {} THEN "conclude_add"
    ELSE IF a.final_dm # "none" THEN "conclude_dm"
    ELSE "conclude_notify"

\* once the role calls are over, the locals of _conclude_verification that
\* are still read from the given position on (assigned_skill_roles stays: it
\* is an argument)
LiveLocals(a, next) ==
    IF next = "conclude_notify"
    THEN [NoConclude EXCEPT !.success = a.success, !.assigned = a.assigned,
                            !.title = a.title, !.message = a.message,
                            !.role_calls = a.role_calls,
                            !.explanations = a.explanations,
                            !.dm_refused = a.dm_refused]
    ELSE IF next = "conclude_dm"
    THEN [NoConclude EXCEPT !.success = a.success, !.assigned = a.assigned,
                            !.title = a.title, !.message = a.message,
                            !.role_calls = a.role_calls,
                            !.explanations = a.explanations,
                            !.dm_refused = a.dm_refused,
                            !.final_dm = a.final_dm, !.reason = a.reason]
    ELSE a

\* the entry left in the store
PopSession_kept(u) == active_verifications

\* The messages of the bot itself that tell the user why the verification
\* ends, sent by the caller right before it concludes: the timeout notice
\* (line 328) before 'User inactive in DM.', "I'm having trouble accessing my
\* instructions" (174) before 'System error: Missing verification prompt.',
\* "role information isn't ready" (183) before its reason, "An unexpected
\* error occurred" (337) before 'Internal error during DM conversation.'. Each
\* reason is
\* passed at one call site only, so it tells which message preceded it.
ExplainedBeforeConclusion(reason) ==
    IF reason \in {"inactive", "missing_prompt", "role_data_not_ready",
                   "internal_error_conversation"} THEN 1 ELSE 0

\* the conclusion is reached through a refused send (discord.Forbidden at
\* lines 157 and 334): the user cannot be sent a message
DeliveryRefused(reason) == reason \in {"dm_failed_start", "dm_failed_mid"}

\* "self.active_verifications.pop(member.id, None)"
PopSession(u) == [active_verifications EXCEPT ![u] = NoTask]

\* Lines 376-474. The entry of the member is popped; the role sets, the final
\* DM and the notification are prepared from the member's current roles. A
\* successful first verification then awaits the LLM summary, any other
\* conclusion the role calls. The popped state object is not read after this
\* point (its history goes into the summary request), so the task's copy is
\* dropped.
conclude_verification(t, success, reason, assigned) ==
    LET u == member[t]
        stored == active_verifications[u]
        was_update == IF stored = NoTask THEN FALSE ELSE is_update_session[stored]
        sets == [NoConclude EXCEPT
                   !.to_remove = roles_to_remove_final(success, member_roles[u], assigned,
                                     categorized_server_roles, guild_roles),
                   !.to_add = roles_to_add_final(success, member_roles[u], assigned,
                                  categorized_server_roles, guild_roles),
                   !.final_dm = final_dm_message_to_send(success, guild_roles)]
        next == IF success /\ ~was_update THEN "conclude_summary" ELSE AfterSets(sets)
        a == [sets EXCEPT
                !.success = success, !.reason = reason, !.assigned = assigned,
                !.title = admin_notification_title(success, was_update),
                !.message = IF ~success THEN "reason"
                            ELSE IF was_update THEN "new_role_list" ELSE "none",
                !.role_calls = "prepared",
                !.explanations = ExplainedBeforeConclusion(reason),
                !.dm_refused = DeliveryRefused(reason)]
    IN  /\ active_verifications' = PopSession(u)
        /\ conclude_args' = [conclude_args EXCEPT ![t] = a]
        /\ pc' = [pc EXCEPT ![t] = next]
        /\ retries_left' = [retries_left EXCEPT ![t] = 0]
        /\ conversation_history' = [conversation_history EXCEPT ![t] = <<>>]
        /\ is_update_session' = [is_update_session EXCEPT ![t] = FALSE]
        /\ last_proposed_classification' =
               [last_proposed_classification EXCEPT ![t] = NullClassification]
        /\ is_first_user_message_in_flow' =
               [is_first_user_message_in_flow EXCEPT ![t] = FALSE]
        /\ replies' = [replies EXCEPT ![t] = 0]

\* ------------------------------------------------------------------------
\* start_verification_process
\* ------------------------------------------------------------------------
\* the duplicate guard dropped
AlreadyActive_unguarded(u) == active_verifications[u] # NoTask /\ FALSE

\* "if member.id in self.active_verifications"
AlreadyActive(u) == active_verifications[u] # NoTask

\* the in-progress role taken as resolved whatever the guild holds
InProgressRoleResolves_always == TRUE

\* "inprogress_role = guild.get_role(self.settings.VERIFICATION_IN_PROGRESS_ROLE_ID)"
\* and "if inprogress_role:" (lines 103-104)
InProgressRoleResolves == VERIFICATION_IN_PROGRESS_ROLE_ID \in guild_roles

\* an invocation takes the first unused task
FirstIdle(t) == pc[t] = "idle" /\ \A s \in Tasks : s < t => pc[s] # "idle"

\* Lines 59-116: up to the first await. A verification that is already active
\* only gets the notice; otherwise the session is stored and the in-progress
\* role is resolved.
start_verification_process(t, u) ==
    /\ FirstIdle(t)
    /\ member' = [member EXCEPT ![t] = u]
    /\ IF AlreadyActive(u)
       THEN /\ pc' = [pc EXCEPT ![t] = "done"]
            /\ outcome' = [outcome EXCEPT ![t] =
                   [result |-> "already_active", last_dm |-> "already_underway"]]
            /\ UNCHANGED <<active_verifications, retries_left, conversation_history,
                           is_update_session>>
       ELSE IF InProgressRoleResolves
       THEN /\ is_update_session' = [is_update_session EXCEPT ![t] =
                   \/ (VERIFIED_ROLE_ID \in guild_roles /\ VERIFIED_ROLE_ID \in member_roles[u])
                   \/ member_manageable_role_ids(member_roles[u], categorized_server_roles,
                                                 server_roles_map) # {}]
            /\ retries_left' = [retries_left EXCEPT ![t] = settings.VERIFICATION_RETRIES]
            /\ conversation_history' = [conversation_history EXCEPT ![t] = <<>>]
            /\ active_verifications' = [active_verifications EXCEPT ![u] = t]
            /\ pc' = [pc EXCEPT ![t] =
                   IF VERIFICATION_IN_PROGRESS_ROLE_ID \in member_roles[u]
                   THEN "start_send_dm" ELSE "start_add_inprogress"]
            /\ UNCHANGED outcome
       ELSE \* the entry stored at line 92 is popped at line 115
            /\ active_verifications' = PopSession(u)
            /\ pc' = [pc EXCEPT ![t] = "done"]
            /\ outcome' = [outcome EXCEPT ![t] =
                   [result |-> "inprogress_role_missing", last_dm |-> "none"]]
            /\ UNCHANGED <<retries_left, conversation_history, is_update_session>>
    /\ UNCHANGED <<request, last_proposed_classification, conclude_args, replies,
                   member_roles, guild_roles, categorized_server_roles, server_roles_map,
                   user_verification_schema, prompt_file_ok, settings, is_first_user_message_in_flow,
                   turn>>

\* Line 107: member.add_roles(inprogress_role) returns or raises
\* (Forbidden/HTTPException are logged); the flow goes on either way.
add_inprogress_role(t) ==
    /\ pc[t] = "start_add_inprogress"
    /\ \E ok \in BOOLEAN :
         member_roles' = [member_roles EXCEPT ![member[t]] =
             IF ok THEN @ \cup {VERIFICATION_IN_PROGRESS_ROLE_ID} ELSE @]
    /\ pc' = [pc EXCEPT ![t] = "start_send_dm"]
    /\ UNCHANGED <<active_verifications, member, retries_left, conversation_history,
                   is_update_session, request, last_proposed_classification, conclude_args,
                   outcome, replies, guild_roles, categorized_server_roles, server_roles_map,
                   user_verification_schema, prompt_file_ok, settings, is_first_user_message_in_flow,
                   turn>>

OpeningEntry == [role |-> "assistant", content |-> "opening", final |-> FALSE, note |-> "none"]

\* Lines 142-162 and 165-187: the opening message is sent (or the send
\* raises), it becomes the first history entry, and _handle_dm_conversation
\* checks the prompt file and the role data before its loop.
send_initial_dm(t) ==
    /\ pc[t] = "start_send_dm"
    /\ \E sent \in {"ok", "forbidden", "error"} :
         IF sent = "ok" /\ prompt_file_ok
            /\ ~RoleDataMissing(categorized_server_roles, server_roles_map)
         THEN /\ conversation_history' = [conversation_history EXCEPT ![t] =
                     Append(@, OpeningEntry)]
              /\ is_first_user_message_in_flow' =
                     [is_first_user_message_in_flow EXCEPT ![t] = TRUE]
              /\ pc' = [pc EXCEPT ![t] = "wait_for"]
              /\ outcome' = [outcome EXCEPT ![t].last_dm = "opening"]
              /\ UNCHANGED <<active_verifications, conclude_args, retries_left,
                             is_update_session, last_proposed_classification, replies>>
         ELSE /\ conclude_verification(t, FALSE,
                     IF sent = "forbidden" THEN "dm_failed_start"
                     ELSE IF sent = "error" THEN "internal_error_start"
                     ELSE IF ~prompt_file_ok THEN "missing_prompt"
                     ELSE "role_data_not_ready",
                     {})
              /\ outcome' = [outcome EXCEPT ![t].last_dm =
                     IF sent # "ok" THEN "none"
                     ELSE IF ~prompt_file_ok THEN "trouble_instructions"
                     ELSE "role_data_not_ready"]
    /\ UNCHANGED <<member, request, member_roles, guild_roles, categorized_server_roles,
                   server_roles_map, user_verification_schema, prompt_file_ok, settings, turn>>

\* ------------------------------------------------------------------------
\* _handle_dm_conversation: one turn of the loop
\* ------------------------------------------------------------------------
\* the directive already given one turn before the last
IsFinalAttempt_early(retries) == retries <= 2

\* "if user_state['retries_left'] == 1": the turn is the final attempt
IsFinalAttempt(retries) == retries = 1

\* Lines 202-252: the text sent to the LLM for this turn. The context note of
\* an update session is prepended on the first reply; on the final attempt the
\* instruction is prepended to the raw input, and an update session gets its
\* roles note inside it.
ProcessedNote(first, update, final, manageable, roles_map) ==
    IF final
    THEN (IF update THEN "update_roles_note" ELSE "none")
    ELSE IF first /\ update
         THEN (IF manageable # {}
               THEN (IF manageable \cap roles_map # {} THEN "current_roles_note"
                     ELSE "verified_only_note")
               ELSE "initiating_note")
         ELSE "none"

UserEntry(final, note) ==
    [role |-> "user", content |-> "user_input", final |-> final, note |-> note]

AssistantEntry(text) ==
    [role |-> "assistant", content |-> text, final |-> FALSE, note |-> "none"]

\* Lines 192-266: wait_for returns a message of this member in this DM
\* channel; the processed input is appended to the history and the guidance
\* request is issued.
reply_received(t) ==
    /\ pc[t] = "wait_for"
    /\ replies[t] < MaxReplies
    /\ replies' = [replies EXCEPT ![t] = @ + 1]
    /\ turn' = [turn EXCEPT ![t] = NoTurn]
    /\ IF active_verifications[member[t]] = NoTask
       THEN /\ pc' = [pc EXCEPT ![t] = "done"]
            /\ outcome' = [outcome EXCEPT ![t].result = "returned"]
            /\ UNCHANGED <<conversation_history, request, is_first_user_message_in_flow>>
       ELSE LET final == IsFinalAttempt(retries_left[t])
                note == ProcessedNote(is_first_user_message_in_flow[t], is_update_session[t],
                            final,
                            member_manageable_role_ids(member_roles[member[t]],
                                categorized_server_roles, server_roles_map),
                            server_roles_map)
            IN  /\ conversation_history' = [conversation_history EXCEPT ![t] =
                       Append(@, UserEntry(final, note))]
                /\ request' = [request EXCEPT ![t] =
                       [issued |-> TRUE, final |-> final, note |-> note,
                        retries_left |-> retries_left[t],
                        available_roles |-> available_roles_text_list(
                            categorized_server_roles, server_roles_map)]]
                /\ is_first_user_message_in_flow' =
                       [is_first_user_message_in_flow EXCEPT ![t] = FALSE]
                /\ pc' = [pc EXCEPT ![t] = "await_guidance"]
                /\ UNCHANGED outcome
    /\ UNCHANGED <<active_verifications, member, retries_left, is_update_session,
                   last_proposed_classification, conclude_args, member_roles, guild_roles,
                   categorized_server_roles, server_roles_map, user_verification_schema,
                   prompt_file_ok, settings>>

\* a timeout that costs a retry and waits again while retries are left
wait_for_timeout_retry(t) ==
    /\ pc[t] = "wait_for"
    /\ IF retries_left[t] > 1
       THEN /\ retries_left' = [retries_left EXCEPT ![t] = @ - 1]
            /\ outcome' = [outcome EXCEPT ![t].last_dm = "timeout_notice"]
            /\ UNCHANGED <<active_verifications, pc, conversation_history,
                           is_update_session, last_proposed_classification,
                           conclude_args, replies, is_first_user_message_in_flow, turn>>
       ELSE /\ conclude_verification(t, FALSE, "inactive", {})
            /\ outcome' = [outcome EXCEPT ![t].last_dm = "timeout_notice"]
            /\ turn' = [turn EXCEPT ![t] = NoTurn]
    /\ UNCHANGED <<member, request, member_roles, guild_roles, categorized_server_roles,
                   server_roles_map, user_verification_schema, prompt_file_ok, settings>>

\* Lines 326-330: wait_for raises TimeoutError; the timeout notice is sent and
\* the verification concludes. A Forbidden raised by that send leaves the
\* handler and is caught at line 157. The turn record keeps the retries_left
\* the wait was made with.
wait_for_timeout(t) ==
    /\ pc[t] = "wait_for"
    /\ \E sent \in {"ok", "forbidden"} :
         /\ conclude_verification(t, FALSE,
                IF sent = "ok" THEN "inactive" ELSE "dm_failed_start", {})
         /\ outcome' = [outcome EXCEPT ![t].last_dm =
                IF sent = "ok" THEN "timeout_notice" ELSE "none"]
    /\ turn' = [turn EXCEPT ![t] = [NoTurn EXCEPT !.retries_before = retries_left[t]]]
    /\ UNCHANGED <<member, request, member_roles, guild_roles, categorized_server_roles,
                   server_roles_map, user_verification_schema, prompt_file_ok, settings>>

\* is_complete taken as a confirmation too
Confirmed_or_complete(g) == g.user_has_confirmed = TRUE \/ g.is_complete = TRUE

\* "if llm_guidance.get('user_has_confirmed') is True"
Confirmed(g) == g.user_has_confirmed = TRUE

\* a refused send taken as a delivered one
Transition_unsent(g, sent, left) ==
    IF g.none THEN "wait_for"
    ELSE IF Confirmed(g) THEN "success"
    ELSE IF left <= 0 THEN "failure"
    ELSE "wait_for"

\* what the turn ends in: the conclusion with success, the conclusion with
\* failure, or the next wait for a reply
Transition(g, sent, left) ==
    IF sent # "ok" THEN "failure"
    ELSE IF g.none THEN "wait_for"
    ELSE IF Confirmed(g) THEN "success"
    ELSE IF left <= 0 THEN "failure"
    ELSE "wait_for"

\* a fallback response credited with a retry instead of charged one
RetriesAfter_credited(g, sent, retries) ==
    IF sent = "ok" /\ ~g.none /\ ~Confirmed(g)
    THEN (IF g.fallback THEN retries + 1 ELSE retries - 1)
    ELSE retries

\* "user_state['retries_left'] -= 1" at line 320, reached by every guidance
\* that is not confirmed; the "continue" at line 272 skips it
RetriesAfter(g, sent, retries) ==
    IF sent = "ok" /\ ~g.none /\ ~Confirmed(g) THEN retries - 1 ELSE retries

\* Lines 268-272: no guidance. The user is asked to rephrase, the input is
\* taken off the history and the loop continues with the same retries_left.
GuidanceNone(t, g, sent) ==
    /\ turn' = [turn EXCEPT ![t] =
           [processed |-> TRUE, retries_before |-> retries_left[t], none |-> TRUE,
            fallback |-> FALSE, user_has_confirmed |-> FALSE, is_complete |-> FALSE,
            relayed |-> (sent = "ok"),
            transition |-> Transition(g, sent, retries_left[t]),
            attempts |-> g.attempts, response |-> g.response,
            unassignable |-> 0, alerts |-> 0, alerts_sent |-> 0, raised |-> FALSE,
            classification |-> NullClassification]]
    /\ IF sent = "ok"
       THEN /\ conversation_history' = [conversation_history EXCEPT ![t] =
                   SubSeq(@, 1, Len(@) - 1)]
            /\ outcome' = [outcome EXCEPT ![t].last_dm = "rephrase"]
            /\ pc' = [pc EXCEPT ![t] = "wait_for"]
            /\ UNCHANGED <<active_verifications, conclude_args, retries_left,
                           is_update_session, last_proposed_classification,
                           is_first_user_message_in_flow, replies>>
       ELSE /\ conclude_verification(t, FALSE, "dm_failed_mid", {})
            /\ outcome' = [outcome EXCEPT ![t].last_dm = "none"]

\* Lines 286-294: "skill_info.get('skill')" is evaluated for every entry of
\* unassignable_skills, before the text is sent; an entry that is not a dict
\* raises AttributeError, which 'except Exception' (lines 335-339) turns into
\* the "unexpected error" message and the conclusion with failure.
UnassignableRaises(entries) ==
    \E i \in 1..Len(entries) : entries[i] # "pair"

\* Lines 300-302: after the text is sent, notify_admin_unmappable_skill is
\* awaited once for every entry; it catches whatever its send raises.
AlertsAttempted(entries, sent) ==
    IF UnassignableRaises(entries) \/ sent # "ok" THEN 0 ELSE Len(entries)

\* Lines 274-351: a guidance (the parsed response or the fallback response).
\* Its text is appended to the history (lines 275 and 278: twice) and sent,
\* and the admin alerts follow; a confirmed guidance concludes with success,
\* any other one costs a retry and the loop ends with failure when none is
\* left.
GuidanceDict(t, g, sent) ==
    IF active_verifications[member[t]] = NoTask
    THEN /\ pc' = [pc EXCEPT ![t] = "done"]
         /\ outcome' = [outcome EXCEPT ![t].result = "returned"]
         /\ UNCHANGED <<active_verifications, conclude_args, retries_left,
                        conversation_history, is_update_session,
                        last_proposed_classification, is_first_user_message_in_flow,
                        replies, turn>>
    ELSE LET raised == UnassignableRaises(g.unassignable_skills)
             left == IF raised THEN retries_left[t]
                     ELSE RetriesAfter(g, sent, retries_left[t])
             transition == IF raised THEN "failure" ELSE Transition(g, sent, left)
             alerts == AlertsAttempted(g.unassignable_skills, sent)
         IN  /\ \E delivered \in (IF alerts > 0 THEN BOOLEAN ELSE {TRUE}) :
                    turn' = [turn EXCEPT ![t] =
                        [processed |-> TRUE, retries_before |-> retries_left[t],
                         none |-> FALSE, fallback |-> g.fallback,
                         user_has_confirmed |-> g.user_has_confirmed,
                         is_complete |-> g.is_complete,
                         relayed |-> (~raised /\ sent = "ok"),
                         transition |-> transition,
                         attempts |-> g.attempts, response |-> g.response,
                         unassignable |-> Len(g.unassignable_skills),
                         alerts |-> alerts,
                         alerts_sent |-> IF delivered THEN alerts ELSE 0,
                         raised |-> raised,
                         classification |->
                             IF transition = "success" THEN g.classification
                             ELSE NullClassification]]
             /\ outcome' = [outcome EXCEPT ![t].last_dm =
                    IF sent # "ok" THEN "none"
                    ELSE IF raised THEN "unexpected_error" ELSE g.message_to_user]
             /\ IF transition = "wait_for"
                THEN /\ conversation_history' = [conversation_history EXCEPT ![t] =
                            Append(Append(@, AssistantEntry(g.message_to_user)),
                                   AssistantEntry(g.message_to_user))]
                     /\ last_proposed_classification' =
                            [last_proposed_classification EXCEPT ![t] = g.classification]
                     /\ retries_left' = [retries_left EXCEPT ![t] = left]
                     /\ pc' = [pc EXCEPT ![t] = "wait_for"]
                     /\ UNCHANGED <<active_verifications, conclude_args, is_update_session,
                                    is_first_user_message_in_flow, replies>>
                ELSE conclude_verification(t, transition = "success",
                         IF raised /\ sent # "ok" THEN "dm_failed_start"
                         ELSE IF raised THEN "internal_error_conversation"
                         ELSE IF sent # "ok" THEN "dm_failed_mid"
                         ELSE IF transition = "success" THEN "none" ELSE "max_retries",
                         IF transition = "success"
                         THEN skill_roles_to_assign(g.classification, guild_roles)
                         ELSE {})

\* Lines 258-266: the Gateway call returns.
guidance_returns(t) ==
    /\ pc[t] = "await_guidance"
    /\ request' = [request EXCEPT ![t] = NoRequest]
    /\ \E resp \in BackendResponses, sent \in {"ok", "forbidden"} :
         LET g == get_verification_guidance(user_verification_schema, resp)
                  @@ GuidanceOrigin(user_verification_schema, resp)
         IN  IF g.none THEN GuidanceNone(t, g, sent) ELSE GuidanceDict(t, g, sent)
    /\ UNCHANGED <<member, member_roles, guild_roles, categorized_server_roles,
                   server_roles_map, user_verification_schema, prompt_file_ok, settings>>

\* ------------------------------------------------------------------------
\* _conclude_verification, lines 441-512: after its first await
\* ------------------------------------------------------------------------
\* Lines 441-470: generate_new_user_summary returns the summary or None.
conclude_summary(t) ==
    /\ pc[t] = "conclude_summary"
    /\ \E text \in {"llm_summary", "summary_failed"} :
         LET a == [conclude_args[t] EXCEPT !.message = text]
             next == AfterSets(a)
         IN  /\ pc' = [pc EXCEPT ![t] = next]
             /\ conclude_args' = [conclude_args EXCEPT ![t] = a]
    /\ turn' = [turn EXCEPT ![t] = NoTurn]
    /\ outcome' = [outcome EXCEPT ![t].last_dm = "none"]
    /\ UNCHANGED <<active_verifications, member, retries_left, conversation_history,
                   is_update_session, request, last_proposed_classification, replies,
                   member_roles, guild_roles, categorized_server_roles, server_roles_map,
                   user_verification_schema, prompt_file_ok, settings, is_first_user_message_in_flow>>

\* One role call of lines 495-496 returns (ok) or raises; a raise leaves the
\* try block, so what follows in it is skipped (lines 506-508).
RoleCallStep(t, ok, roles_after, next_if_ok) ==
    LET a == conclude_args[t]
        next == IF ok THEN next_if_ok ELSE "conclude_notify"
    IN  /\ member_roles' = [member_roles EXCEPT ![member[t]] =
               IF ok THEN roles_after ELSE @]
        /\ pc' = [pc EXCEPT ![t] = next]
        /\ conclude_args' = [conclude_args EXCEPT ![t] =
               LiveLocals([a EXCEPT !.role_calls =
                   IF ~ok THEN "raised"
                   ELSE IF next = "conclude_add" THEN "removed" ELSE "ok"], next)]

\* Line 495: remove_roles(*valid_roles_to_remove)
conclude_remove(t) ==
    /\ pc[t] = "conclude_remove"
    /\ \E ok \in BOOLEAN :
         RoleCallStep(t, ok, member_roles[member[t]] \ conclude_args[t].to_remove,
             IF conclude_args[t].to_add # {} THEN "conclude_add"
             ELSE IF conclude_args[t].final_dm # "none" THEN "conclude_dm"
             ELSE "conclude_notify")
    /\ turn' = [turn EXCEPT ![t] = NoTurn]
    /\ outcome' = [outcome EXCEPT ![t].last_dm = "none"]
    /\ UNCHANGED <<active_verifications, member, retries_left, conversation_history,
                   is_update_session, request, last_proposed_classification, replies,
                   guild_roles, categorized_server_roles, server_roles_map,
                   user_verification_schema, prompt_file_ok, settings, is_first_user_message_in_flow>>

\* Line 496: add_roles(*valid_roles_to_add)
conclude_add(t) ==
    /\ pc[t] = "conclude_add"
    /\ \E ok \in BOOLEAN :
         RoleCallStep(t, ok, member_roles[member[t]] \cup conclude_args[t].to_add,
             IF conclude_args[t].final_dm # "none" THEN "conclude_dm"
             ELSE "conclude_notify")
    /\ turn' = [turn EXCEPT ![t] = NoTurn]
    /\ outcome' = [outcome EXCEPT ![t].last_dm = "none"]
    /\ UNCHANGED <<active_verifications, member, retries_left, conversation_history,
                   is_update_session, request, last_proposed_classification, replies,
                   guild_roles, categorized_server_roles, server_roles_map,
                   user_verification_schema, prompt_file_ok, settings, is_first_user_message_in_flow>>

\* Lines 502-504: the final DM (failures and system errors only); a Forbidden
\* is logged.
conclude_dm(t) ==
    /\ pc[t] = "conclude_dm"
    /\ \E sent \in BOOLEAN :
         /\ outcome' = [outcome EXCEPT ![t].last_dm =
                IF sent THEN conclude_args[t].final_dm ELSE "none"]
         /\ conclude_args' = [conclude_args EXCEPT ![t] =
                LiveLocals([@ EXCEPT !.role_calls = "ok",
                               !.explanations = IF sent THEN @ + 1 ELSE @,
                               !.dm_refused = IF sent THEN @ ELSE TRUE],
                           "conclude_notify")]
    /\ pc' = [pc EXCEPT ![t] = "conclude_notify"]
    /\ turn' = [turn EXCEPT ![t] = NoTurn]
    /\ UNCHANGED <<active_verifications, member, retries_left, conversation_history,
                   is_update_session, request, last_proposed_classification, replies,
                   member_roles, guild_roles, categorized_server_roles, server_roles_map,
                   user_verification_schema, prompt_file_ok, settings, is_first_user_message_in_flow>>

\* Lines 510-512 and _send_admin_notification: the notification is sent when
\* title and message are set, unless the channel is unset or the send fails.
conclude_notify(t) ==
    /\ pc[t] = "conclude_notify"
    /\ \E sent \in BOOLEAN :
         outcome' = [outcome EXCEPT ![t] =
             [result |-> IF conclude_args[t].title = "none"
                            \/ conclude_args[t].message = "none" THEN "not_notified"
                         ELSE IF sent THEN conclude_args[t].title
                         ELSE "notification_failed",
              last_dm |-> "none"]]
    /\ conclude_args' = [conclude_args EXCEPT ![t] = NoConclude]
    /\ pc' = [pc EXCEPT ![t] = "done"]
    /\ turn' = [turn EXCEPT ![t] = NoTurn]
    /\ UNCHANGED <<active_verifications, member, retries_left, conversation_history,
                   is_update_session, request, last_proposed_classification, replies,
                   member_roles, guild_roles, categorized_server_roles, server_roles_map,
                   user_verification_schema, prompt_file_ok, settings, is_first_user_message_in_flow>>

\* ------------------------------------------------------------------------
\* The bot: any member can trigger a verification at any time (member join,
\* /assign-roles, /admin verify-user, batch initiation)
\* ------------------------------------------------------------------------
Next ==
    \/ \E t \in Tasks, u \in Users : start_verification_process(t, u)
    \/ \E t \in Tasks : add_inprogress_role(t)
    \/ \E t \in Tasks : send_initial_dm(t)
    \/ \E t \in Tasks : reply_received(t)
    \/ \E t \in Tasks : wait_for_timeout(t)
    \/ \E t \in Tasks : guidance_returns(t)
    \/ \E t \in Tasks : conclude_summary(t)
    \/ \E t \in Tasks : conclude_remove(t)
    \/ \E t \in Tasks : conclude_add(t)
    \/ \E t \in Tasks : conclude_dm(t)
    \/ \E t \in Tasks : conclude_notify(t)

Spec == Init /\ [][Next]_vars

\* ------------------------------------------------------------------------
\* The conclusion on its own: one session that has just sent its opening
\* message, for every set of roles the member can hold, with the verified or
\* the unverified role possibly deleted from the guild, and with either
\* taxonomy. No other trigger arrives.
\* ------------------------------------------------------------------------
GuildRoleSets ==
    {AllRoles, AllRoles \ {VERIFIED_ROLE_ID}, AllRoles \ {UNVERIFIED_ROLE_ID}}

InitRec ==
    /\ guild_roles \in GuildRoleSets
    /\ categorized_server_roles \in {TaxonomySkillsOnly, TaxonomyAllGuildRoles(guild_roles)}
    /\ server_roles_map = update_server_roles_map(categorized_server_roles, guild_roles)
    /\ member_roles \in {f \in [Users -> SUBSET guild_roles] :
                            \A u \in Users : u # 1 => f[u] = {}}
    /\ user_verification_schema = TRUE
    /\ prompt_file_ok = TRUE
    /\ settings = [VERIFICATION_RETRIES |-> VERIFICATION_RETRIES]
    /\ active_verifications = [u \in Users |-> IF u = 1 THEN 1 ELSE NoTask]
    /\ pc = [t \in Tasks |-> IF t = 1 THEN "wait_for" ELSE "idle"]
    /\ member = [t \in Tasks |-> IF t = 1 THEN 1 ELSE NoUser]
    /\ retries_left = [t \in Tasks |-> IF t = 1 THEN VERIFICATION_RETRIES ELSE 0]
    /\ conversation_history = [t \in Tasks |-> IF t = 1 THEN <<OpeningEntry>> ELSE <<>>]
    /\ is_update_session \in {f \in [Tasks -> BOOLEAN] : \A t \in Tasks : t # 1 => ~f[t]}
    /\ request = [t \in Tasks |-> NoRequest]
    /\ last_proposed_classification = [t \in Tasks |-> NullClassification]
    /\ conclude_args = [t \in Tasks |-> NoConclude]
    /\ outcome = [t \in Tasks |->
           IF t = 1 THEN [result |-> "none", last_dm |-> "opening"] ELSE NoOutcome]
    /\ replies = [t \in Tasks |-> 0]
    /\ is_first_user_message_in_flow = [t \in Tasks |-> t = 1]
    /\ turn = [t \in Tasks |-> NoTurn]

NextRec ==
    \/ \E t \in Tasks : reply_received(t)
    \/ \E t \in Tasks : wait_for_timeout(t)
    \/ \E t \in Tasks : guidance_returns(t)
    \/ \E t \in Tasks : conclude_summary(t)
    \/ \E t \in Tasks : conclude_remove(t)
    \/ \E t \in Tasks : conclude_add(t)
    \/ \E t \in Tasks : conclude_dm(t)
    \/ \E t \in Tasks : conclude_notify(t)

SpecRec == InitRec /\ [][NextRec]_vars

\* ------------------------------------------------------------------------
\* Batch initiation (/admin start-verification-batch), admin_commands_cog.py
\* lines 95-127: the candidates hold the unverified role and neither the
\* verified nor the in-progress role; the loop awaits
\* start_verification_process for one member after the other. The k-th
\* iteration runs as task k of the model.
\* ------------------------------------------------------------------------
actual_batch == [i \in 1..NumBatchMembers |-> i]

BatchMembers == {actual_batch[i] : i \in 1..NumBatchMembers}

InitBatch ==
    /\ active_verifications = [u \in BatchMembers |-> NoTask]
    /\ member_roles = [u \in BatchMembers |-> {UNVERIFIED_ROLE_ID}]
    /\ pc = [t \in Tasks |-> "idle"]
    /\ member = [t \in Tasks |-> NoUser]
    /\ retries_left = [t \in Tasks |-> 0]
    /\ conversation_history = [t \in Tasks |-> <<>>]
    /\ is_update_session = [t \in Tasks |-> FALSE]
    /\ request = [t \in Tasks |-> NoRequest]
    /\ last_proposed_classification = [t \in Tasks |-> NullClassification]
    /\ conclude_args = [t \in Tasks |-> NoConclude]
    /\ outcome = [t \in Tasks |-> NoOutcome]
    /\ replies = [t \in Tasks |-> 0]
    /\ is_first_user_message_in_flow = [t \in Tasks |-> FALSE]
    /\ turn = [t \in Tasks |-> NoTurn]
    /\ \E s \in StartupStates :
         /\ guild_roles = s.live
         /\ user_verification_schema = s.schema
         /\ prompt_file_ok = s.prompt
         /\ settings = [VERIFICATION_RETRIES |-> s.retries]
    /\ categorized_server_roles \in {TaxonomySkillsOnly, TaxonomyAllGuildRoles(guild_roles)}
    /\ server_roles_map = update_server_roles_map(categorized_server_roles, guild_roles)

\* Lines 118-123: "await self.verification_service.start_verification_process(
\* member_to_verify)" for the next member of the batch. The loop reaches the
\* call for member k only after the awaited call for member k-1 has returned
\* (and asyncio.sleep(1) after it, which changes no state).
batch_start_verification(t) ==
    /\ t <= NumBatchMembers
    /\ \A s \in Tasks : s < t => pc[s] = "done"
    /\ start_verification_process(t, actual_batch[t])

NextBatch ==
    \/ \E t \in Tasks : batch_start_verification(t)
    \/ \E t \in Tasks : add_inprogress_role(t)
    \/ \E t \in Tasks : send_initial_dm(t)
    \/ \E t \in Tasks : reply_received(t)
    \/ \E t \in Tasks : wait_for_timeout(t)
    \/ \E t \in Tasks : guidance_returns(t)
    \/ \E t \in Tasks : conclude_summary(t)
    \/ \E t \in Tasks : conclude_remove(t)
    \/ \E t \in Tasks : conclude_add(t)
    \/ \E t \in Tasks : conclude_dm(t)
    \/ \E t \in Tasks : conclude_notify(t)

SpecBatch == InitBatch /\ [][NextBatch]_vars

\* ------------------------------------------------------------------------
\* Taxonomy rebuild (/admin rebuild-role-categories: perform_role_categorization
\* with force_rebuild=True) while a session is going on
\* ------------------------------------------------------------------------
\* "self.bot.categorized_server_roles = {}"
EmptyTaxonomy == [c \in TaxonomyCategories |-> {}]

\* What categorize_server_roles returns for the candidate roles: every
\* candidate is in a category (unassigned ones are put into 'Other', lines
\* 422-436); the candidates are all roles of the guild, or the roles below the
\* hierarchy boundary (here: the skill roles). A failed call returns {}.
CategorizationResults(live) ==
    {TaxonomyAllGuildRoles(live), TaxonomySkillsOnly, EmptyTaxonomy}

\* _save_categorized_roles_to_file (lines 94-104): the file is written and the
\* id -> name map is rebuilt from the taxonomy; when writing the file raises,
\* the exception is logged and the map is left as it is.
save_categorized_roles_to_file(categorized, saved) ==
    IF saved THEN update_server_roles_map(categorized, guild_roles) ELSE server_roles_map

\* perform_role_categorization, lines 128-221: from the return of the awaited
\* calls to the end, which runs without a further suspension. A configured
\* hierarchy boundary role that the guild does not resolve (lines 135-141) or
\* a categorization prompt that cannot be loaded (lines 199-205) clears the
\* taxonomy, because no file was loaded on a forced rebuild ("if not
\* loaded_from_file"); a non-empty result of the LLM replaces it; an empty one
\* leaves it. The save follows in the same step.
perform_role_categorization ==
    /\ \E boundary_role \in BOOLEAN, prompt_template \in BOOLEAN, saved \in BOOLEAN :
         \E categorized_roles \in CategorizationResults(guild_roles) :
             LET next == IF ~boundary_role \/ ~prompt_template THEN EmptyTaxonomy
                         ELSE IF categorized_roles # EmptyTaxonomy THEN categorized_roles
                         ELSE categorized_server_roles
             IN  /\ categorized_server_roles' = next
                 /\ server_roles_map' = save_categorized_roles_to_file(next, saved)
    /\ UNCHANGED <<active_verifications, pc, member, retries_left, conversation_history,
                   is_update_session, request, last_proposed_classification, conclude_args,
                   outcome, replies, member_roles, guild_roles, user_verification_schema,
                   prompt_file_ok, settings, is_first_user_message_in_flow, turn>>

\* one session that waits for its first reply, every role of the guild live
InitRebuild ==
    /\ InitRec
    /\ guild_roles = AllRoles
    /\ member_roles[1] \in InitialMemberRoles

NextRebuild ==
    \/ perform_role_categorization
    \/ \E t \in Tasks : reply_received(t)
    \/ \E t \in Tasks : wait_for_timeout(t)
    \/ \E t \in Tasks : guidance_returns(t)
    \/ \E t \in Tasks : conclude_summary(t)
    \/ \E t \in Tasks : conclude_remove(t)
    \/ \E t \in Tasks : conclude_add(t)
    \/ \E t \in Tasks : conclude_dm(t)
    \/ \E t \in Tasks : conclude_notify(t)

SpecRebuild == InitRebuild /\ [][NextRebuild]_vars

\* ------------------------------------------------------------------------
\* Sessions of several users at once: every user has a session that waits for
\* its first reply (each started as a task of its own, event_listeners_cog.py
\* line 266), and messages of any author arrive in any channel.
\* ------------------------------------------------------------------------
ConcurrentUsers == 1..NumConcurrentUsers

\* the DM channel of a member is named by the member; NoUser is a channel of
\* the guild
Messages ==
    [author : ConcurrentUsers, channel : ConcurrentUsers \cup {NoUser},
     content : {"text", "blank"}, is_system : BOOLEAN]

\* the author test left out
wait_for_check_any_author(m, t) ==
    /\ m.channel = member[t]
    /\ ~m.is_system
    /\ m.content # "blank"

\* Line 195, the check of wait_for: "m.author.id == member.id and
\* m.channel.id == dm_channel.id and not m.is_system() and m.content is not
\* None and m.content.strip() != ''"
wait_for_check(m, t) ==
    /\ m.author = member[t]
    /\ m.channel = member[t]
    /\ ~m.is_system
    /\ m.content # "blank"

\* Lines 192-266 for one message of the gateway: wait_for returns it to the
\* session whose check it passes.
on_message(t, m) ==
    /\ wait_for_check(m, t)
    /\ reply_received(t)

InitConcurrent ==
    /\ guild_roles = AllRoles
    /\ categorized_server_roles = TaxonomyAllGuildRoles(guild_roles)
    /\ server_roles_map = update_server_roles_map(categorized_server_roles, guild_roles)
    /\ member_roles = [u \in ConcurrentUsers |-> {VERIFICATION_IN_PROGRESS_ROLE_ID}]
    /\ user_verification_schema = TRUE
    /\ prompt_file_ok = TRUE
    /\ settings \in {[VERIFICATION_RETRIES |-> 1]}
    /\ active_verifications = [u \in ConcurrentUsers |-> u]
    /\ pc = [t \in Tasks |-> IF t \in ConcurrentUsers THEN "wait_for" ELSE "idle"]
    /\ member = [t \in Tasks |-> IF t \in ConcurrentUsers THEN t ELSE NoUser]
    /\ retries_left = [t \in Tasks |->
           IF t \in ConcurrentUsers THEN settings.VERIFICATION_RETRIES ELSE 0]
    /\ conversation_history = [t \in Tasks |->
           IF t \in ConcurrentUsers THEN <<OpeningEntry>> ELSE <<>>]
    /\ is_update_session = [t \in Tasks |-> FALSE]
    /\ request = [t \in Tasks |-> NoRequest]
    /\ last_proposed_classification = [t \in Tasks |-> NullClassification]
    /\ conclude_args = [t \in Tasks |-> NoConclude]
    /\ outcome = [t \in Tasks |->
           IF t \in ConcurrentUsers THEN [result |-> "none", last_dm |-> "opening"]
           ELSE NoOutcome]
    /\ replies = [t \in Tasks |-> 0]
    /\ is_first_user_message_in_flow = [t \in Tasks |-> t \in ConcurrentUsers]
    /\ turn = [t \in Tasks |-> NoTurn]

NextConcurrent ==
    \/ \E t \in Tasks, m \in Messages : on_message(t, m)
    \/ \E t \in Tasks : wait_for_timeout(t)
    \/ \E t \in Tasks : guidance_returns(t)
    \/ \E t \in Tasks : conclude_summary(t)
    \/ \E t \in Tasks : conclude_remove(t)
    \/ \E t \in Tasks : conclude_add(t)
    \/ \E t \in Tasks : conclude_dm(t)
    \/ \E t \in Tasks : conclude_notify(t)

SpecConcurrent == InitConcurrent /\ [][NextConcurrent]_vars

\* ------------------------------------------------------------------------
\* Properties
\* ------------------------------------------------------------------------
\* positions of a task whose conversation handler runs or is about to run
HandlerPcs == {"start_add_inprogress", "start_send_dm", "wait_for", "await_guidance"}

\* positions inside _conclude_verification
ConcludePcs == {"conclude_summary", "conclude_remove", "conclude_add", "conclude_dm",
                "conclude_notify"}

\* the conclusion of the task has prepared its role sets and made no role call yet
Prepared(t) == pc[t] \in ConcludePcs /\ conclude_args[t].role_calls = "prepared"

Held(t) == member_roles[member[t]]

Managed == all_bot_managed_skill_ids(categorized_server_roles)

\* C1: for every user at most one task runs a conversation handler, and it is
\* the task whose session is stored; a trigger that finds a session of the
\* user in the store ends at once with the "already underway" notice and
\* leaves the store, the member's roles, every retries_left, every history
\* and every role request as they were.
C1_OneSessionPerUser ==
    [][/\ \A u \in Users :
            /\ Cardinality({t \in Tasks : pc'[t] \in HandlerPcs /\ member'[t] = u}) <= 1
            /\ \A t \in Tasks : pc'[t] \in HandlerPcs /\ member'[t] = u
                                => active_verifications'[u] = t
       /\ \A t \in Tasks :
            (pc[t] = "idle" /\ pc'[t] # "idle" /\ active_verifications[member'[t]] # NoTask)
            => /\ pc'[t] = "done"
               /\ outcome'[t].last_dm = "already_underway"
               /\ UNCHANGED <<active_verifications, member_roles, retries_left,
                              conversation_history, conclude_args, request>>]_vars

\* a trigger was turned away while the session of the user, one retry already
\* used, waits for its guidance
C1_Witness ==
    \E t \in Tasks, s \in Tasks :
        /\ outcome[t].result = "already_active"
        /\ pc[s] = "await_guidance"
        /\ active_verifications[member[t]] = s
        /\ retries_left[s] < settings.VERIFICATION_RETRIES

\* C2: after a turn in which the Gateway failed (no guidance, or the fallback
\* response that stands for an HTTP error, a timeout, malformed JSON or a
\* protocol violation) and whose reply to the user was delivered, the session
\* waits for the next reply with the retries_left it had before the turn.
C2_GatewayFailureKeepsRetries ==
    \A t \in Tasks :
        turn[t].processed /\ (turn[t].none \/ turn[t].fallback) /\ turn[t].relayed
        => /\ pc[t] = "wait_for"
           /\ retries_left[t] = turn[t].retries_before
           /\ outcome[t].last_dm \in {"rephrase", "fallback_text"}

\* C3: the turn processed with retries_left = 1 ends in a conclusion, never in
\* another wait for a reply.
C3_FinalTurnConcludes ==
    \A t \in Tasks :
        turn[t].processed /\ turn[t].retries_before = 1
        => turn[t].transition \in {"success", "failure"} /\ pc[t] # "wait_for"

\* C4: a guidance request in flight carries the final-attempt directive, and
\* the user entry it added to the history is wrapped in it, exactly when the
\* session's retries_left is 1.
C4_FinalDirectiveIffLastRetry ==
    \A t \in Tasks :
        request[t].issued
        => /\ request[t].final <=> (retries_left[t] = 1)
           /\ conversation_history[t][Len(conversation_history[t])].role = "user"
           /\ conversation_history[t][Len(conversation_history[t])].final = request[t].final

\* a request with the directive is in flight, after requests without it
C4_Witness ==
    \E t \in Tasks :
        /\ request[t].issued
        /\ request[t].final
        /\ \E i \in 1..Len(conversation_history[t]) :
               conversation_history[t][i].role = "user" /\ ~conversation_history[t][i].final

\* C5: a session never processes more user replies than VERIFICATION_RETRIES.
C5_RepliesBounded ==
    \A t \in Tasks : replies[t] <= settings.VERIFICATION_RETRIES

\* C6: the transition a delivered guidance leads to is decided by
\* user_has_confirmed and the retries alone: success exactly when it is true,
\* otherwise failure on the last retry and another wait before it, whatever
\* is_complete holds.
C6_SuccessOnlyOnConfirmation ==
    \A t \in Tasks :
        turn[t].processed /\ ~turn[t].none /\ turn[t].relayed
        => turn[t].transition =
               IF turn[t].user_has_confirmed THEN "success"
               ELSE IF turn[t].retries_before = 1 THEN "failure"
               ELSE "wait_for"

\* a guidance with is_complete true and user_has_confirmed false was
\* delivered and the session waits for the next reply
C6_Witness ==
    \E t \in Tasks :
        /\ turn[t].processed /\ ~turn[t].none /\ turn[t].relayed
        /\ turn[t].is_complete /\ ~turn[t].user_has_confirmed
        /\ pc[t] = "wait_for"

C8_FailureSetsAndExplanation ==
    \A t \in Tasks :
        pc[t] \in ConcludePcs /\ ~conclude_args[t].success /\ UNVERIFIED_ROLE_ID \in guild_roles
        => /\ Prepared(t)
              => /\ conclude_args[t].to_add = {UNVERIFIED_ROLE_ID} \ Held(t)
                 /\ conclude_args[t].to_remove =
                        Held(t) \cap {VERIFICATION_IN_PROGRESS_ROLE_ID}
                 /\ conclude_args[t].final_dm = "failure_with_reason"
           /\ pc[t] = "conclude_notify" => conclude_args[t].role_calls # "raised"

\* C9: reconciling again with the same proposed roles against the roles the
\* member holds once the prepared sets are applied gives two empty sets.
C9_ReconcileIdempotent ==
    \A t \in Tasks :
        Prepared(t)
        => LET a == conclude_args[t]
               after == (Held(t) \ a.to_remove) \cup a.to_add
           IN  /\ roles_to_add_final(a.success, after, a.assigned,
                                     categorized_server_roles, guild_roles) = {}
               /\ roles_to_remove_final(a.success, after, a.assigned,
                                        categorized_server_roles, guild_roles) = {}

\* C10: once the role calls of a successful conclusion (the verified role
\* resolves) have all returned, or none was needed, the member holds the
\* verified role and every proposed taxonomy role and holds neither the
\* in-progress nor the unverified role.
C10_SuccessfulMemberRoles ==
    \A t \in Tasks :
        /\ pc[t] \in ConcludePcs
        /\ conclude_args[t].success
        /\ VERIFIED_ROLE_ID \in guild_roles
        /\ \/ conclude_args[t].role_calls = "ok"
           \/ Prepared(t) /\ conclude_args[t].to_add = {} /\ conclude_args[t].to_remove = {}
        => /\ VERIFIED_ROLE_ID \in Held(t)
           /\ (conclude_args[t].assigned \cap Managed) \subseteq Held(t)
           /\ VERIFICATION_IN_PROGRESS_ROLE_ID \notin Held(t)
           /\ UNVERIFIED_ROLE_ID \notin Held(t)

C12_RetiredOnlyByConclusion ==
    [][\A t \in Tasks :
         /\ (pc[t] = "idle" /\ pc'[t] = "done") => AlreadyActive(member'[t])
         /\ (pc[t] \in HandlerPcs /\ pc'[t] \notin HandlerPcs)
            => /\ pc'[t] \in ConcludePcs
               /\ active_verifications[member[t]] = t
               /\ active_verifications'[member[t]] = NoTask]_vars

\* C13: while a conclusion is at any of its external side effects (summary
\* request, role removal, role addition, final message, admin notification)
\* the entry of the session it concludes is no longer in the store, and a
\* trigger for the same user is turned away only by a session that is still
\* in its handler, never by one that is being concluded.
C13_PoppedBeforeSideEffects ==
    [][/\ \A t \in Tasks :
            pc[t] \in ConcludePcs => active_verifications[member[t]] # t
       /\ \A t \in Tasks :
            (pc[t] = "idle" /\ pc'[t] = "done" /\ outcome'[t].result = "already_active")
            => /\ active_verifications[member'[t]] # NoTask
               /\ pc[active_verifications[member'[t]]] \in HandlerPcs]_vars

\* during the side effects of one conclusion a new trigger for the same user
\* has found no session and stored its own
C13_Witness ==
    \E t, s \in Tasks :
        /\ t # s
        /\ member[t] = member[s]
        /\ pc[t] \in ConcludePcs
        /\ pc[s] \in HandlerPcs
        /\ active_verifications[member[s]] = s

\* C14: every verification that stored a session ends with exactly one admin
\* notification, sent in the last step of its conclusion, and the kind of the
\* notification matches the outcome: the summary (or its placeholder) for a
\* new verification, the new role list for a role update, the reason for a
\* failure.
C14_OneNotificationPerConclusion ==
    [][\A t \in Tasks :
         (/\ pc[t] # "done"
          /\ pc'[t] = "done"
          /\ ~(pc[t] = "idle" /\ AlreadyActive(member'[t])))
         => /\ pc[t] = "conclude_notify"
            /\ outcome'[t].result = conclude_args[t].title
            /\ IF conclude_args[t].success
               THEN \/ /\ conclude_args[t].title = "new_user_verified"
                       /\ conclude_args[t].message \in {"llm_summary", "summary_failed"}
                    \/ /\ conclude_args[t].title = "roles_updated"
                       /\ conclude_args[t].message = "new_role_list"
               ELSE /\ conclude_args[t].title = "verification_failed"
                    /\ conclude_args[t].message = "reason"]_vars

\* C15: a verification that ends in failure has sent the user exactly one
\* message that explains the failure, unless a send to the user was refused:
\* when a failed conclusion is about to notify the admins, one explanatory
\* message has been delivered, and a verification given up because the
\* in-progress role does not resolve has sent the user a message too.
C15_OneExplanationPerFailure ==
    \A t \in Tasks :
        /\ (pc[t] = "conclude_notify" /\ ~conclude_args[t].success
               /\ ~conclude_args[t].dm_refused)
           => conclude_args[t].explanations = 1
        /\ (pc[t] = "done" /\ outcome[t].result = "inprogress_role_missing")
           => outcome[t].last_dm # "none"

\* C16: whether the remove-roles call returns or raises, the conclusion goes
\* on with what was prepared: the add-roles call when there are roles to add,
\* the final message to the user when there is one, and the admin
\* notification.
C16_RemoveFailureSkipsNothing ==
    [][\A t \in Tasks :
         (pc[t] = "conclude_remove" /\ pc'[t] # "conclude_remove")
         => pc'[t] = IF conclude_args[t].to_add # {} THEN "conclude_add"
                     ELSE IF conclude_args[t].final_dm # "none" THEN "conclude_dm"
                     ELSE "conclude_notify"]_vars

\* C17: on the successful conclusion of a first verification the role calls
\* have been requested by the time the summary is requested from the LLM, so
\* the outcome of the summary request changes nothing but the text of the
\* notification (the summary, or the placeholder when it failed).
C17_RolesBeforeSummary ==
    [][\A t \in Tasks :
         (pc[t] = "conclude_summary" /\ pc'[t] # "conclude_summary")
         => /\ conclude_args[t].role_calls # "prepared"
            /\ pc'[t] = "conclude_notify"
            /\ conclude_args'[t].message \in {"llm_summary", "summary_failed"}
            /\ conclude_args'[t] = [conclude_args[t] EXCEPT !.message = conclude_args'[t].message]]_vars

\* C18: in a batch, once the opening message of a member has been sent and
\* that member's conversation is going on (waiting for a reply, or a guidance
\* request in flight), the loop has started the next member of the batch or
\* can start it now: it does not wait for the conversation to conclude.
C18_BatchDoesNotAwaitConversation ==
    \A t \in 1..(NumBatchMembers - 1) :
        pc[t] \in {"wait_for", "await_guidance"}
        => \/ pc[t + 1] # "idle"
           \/ ENABLED batch_start_verification(t + 1)

\* C19: for one user at most one of these is pending at any time, also when
\* one session of the user has ended and the next has started: a wait for the
\* user's reply, a guidance request in flight, a summary request in flight.
C19_OnePendingPerUser ==
    \A u \in DOMAIN active_verifications :
        Cardinality({t \in Tasks :
            /\ member[t] = u
            /\ pc[t] \in {"wait_for", "await_guidance", "conclude_summary"}}) <= 1

\* C20: a configuration error found during a session ends it: no session
\* waits for a reply or has a guidance request in flight while the prompt
\* template is unreadable, and no session goes back to waiting for a reply
\* after a turn in which the schema turned out not to be loaded (no
\* guidance).
C20_ConfigErrorFatal ==
    \A t \in Tasks :
        pc[t] \in {"wait_for", "await_guidance"}
        => /\ prompt_file_ok
           /\ ~(turn[t].processed /\ turn[t].none)

\* C21: when the in-progress role does not resolve in the guild, a
\* verification is given up where it starts: no task ever reaches the
\* opening message, a reply wait, a guidance request or a conclusion, no
\* message is sent to the user, no history is written, and no session is in
\* the store.
C21_InProgressRoleMissingAborts ==
    VERIFICATION_IN_PROGRESS_ROLE_ID \notin guild_roles
    => /\ \A u \in DOMAIN active_verifications : active_verifications[u] = NoTask
       /\ \A t \in Tasks :
            /\ pc[t] \in {"idle", "done"}
            /\ ~request[t].issued
            /\ conversation_history[t] = <<>>
            /\ outcome[t].last_dm = "none"

\* a verification was triggered with the in-progress role unresolvable and
\* has been given up
C21_Witness ==
    /\ VERIFICATION_IN_PROGRESS_ROLE_ID \notin guild_roles
    /\ \E t \in Tasks :
         /\ pc[t] = "done"
         /\ member[t] # NoUser
         /\ outcome[t].result = "inprogress_role_missing"

\* C22: for every answer of the backend a Gateway call makes one or two HTTP
\* attempts, the second one only when the first timed out - never after an
\* HTTP error status, undecodable JSON, a response without the expected
\* structure or a connection error - and a call whose last attempt failed
\* returns no response data, which get_verification_guidance turns into the
\* fallback response: the handler always gets a value back and records at
\* most 2 attempts for the turn.
C22_GatewayAttempts ==
    /\ \A resp \in BackendResponses :
         LET made == AttemptsMade(resp)
         IN  /\ Len(made) \in 1..2
             /\ made = SubSeq(resp.attempts, 1, Len(made))
             /\ Len(made) = 2 <=> (made[1] = "read_timeout" /\ Len(resp.attempts) >= 2)
             /\ made[Len(made)] # "ok"
                => /\ ~make_llm_request(resp)
                   /\ get_verification_guidance(TRUE, resp) = fallback_response_defined
    /\ \A t \in Tasks :
         turn[t].processed
         => /\ turn[t].attempts <= 2
            /\ turn[t].response = "no_response" => (turn[t].fallback /\ ~turn[t].none)

\* both attempts of a guidance request timed out; the handler was given the
\* fallback response and waits for the next reply
C22_Witness ==
    \E t \in Tasks :
        /\ turn[t].processed
        /\ turn[t].response = "no_response"
        /\ turn[t].attempts = 2
        /\ turn[t].fallback
        /\ pc[t] = "wait_for"

\* C23: a decoded response that violates the protocol (message_to_user or
\* is_complete absent, user_has_confirmed not a boolean) is not acted on: once
\* the turn is over the text sent to the user is not the response's text, no
\* classification of it is held, the turn has not concluded with success, and
\* the session goes on to wait for the next reply.
C23_ViolationNotActedOn ==
    \A t \in Tasks :
        (turn[t].processed /\ turn[t].response = "violation" /\ turn[t].relayed)
        => /\ outcome[t].last_dm # "llm_text"
           /\ turn[t].transition # "success"
           /\ pc[t] = "wait_for"
           /\ last_proposed_classification[t] = NullClassification

\* C24: whatever the backend answers to a guidance request in flight: in
\* arguments whose other fields are valid, a category whose value is
\* a list of integers is passed through unchanged, every category whose value
\* is anything else is replaced by the empty list, and the response is
\* accepted as the guidance.
C24_CategoryCoercion ==
    \A t \in Tasks, resp \in BackendResponses :
        (/\ pc[t] = "await_guidance" /\ user_verification_schema
         /\ make_llm_request(resp) /\ resp.function_call /\ resp.arguments_json
         /\ ArgumentsAccepted(resp.arguments)
         /\ ~resp.arguments.classification.is_null)
        => LET raw == resp.arguments.classification
               g == get_verification_guidance(user_verification_schema, resp)
               Expected(value) ==
                   IF IsListOfIntegers(value) THEN ConvertedIds(value.items) ELSE <<>>
           IN  /\ ~g.none /\ ~g.fallback
               /\ g.classification.Programming_Language = Expected(raw.Programming_Language)
               /\ g.classification.Operating_System = Expected(raw.Operating_System)

\* C25: while a session lasts its conversation history only grows: in every
\* step that leaves the session in its handler the history before the step is
\* a prefix of the history after it.
C25_HistoryAppendOnly ==
    [][\A t \in Tasks :
         (pc[t] \in HandlerPcs /\ pc'[t] \in HandlerPcs)
         => /\ Len(conversation_history[t]) <= Len(conversation_history'[t])
            /\ conversation_history[t] =
                   SubSeq(conversation_history'[t], 1, Len(conversation_history[t]))]_vars

\* C26: a turn for which the Gateway returns a guidance leaves the history
\* two entries longer than it was before the reply: the user entry with the
\* raw input, appended when the request was issued, and after it one
\* assistant entry with the message_to_user that was relayed; the first entry
\* of the history is the opening message.
C26_TwoEntriesPerTurn ==
    [][\A t \in Tasks :
         (pc[t] = "await_guidance" /\ pc'[t] = "wait_for" /\ ~turn'[t].none)
         => LET before == conversation_history[t]
                after == conversation_history'[t]
            IN  /\ after[1] = OpeningEntry
                /\ before[Len(before)] = UserEntry(FALSE, "none")
                /\ after = Append(before, AssistantEntry(outcome'[t].last_dm))]_vars

\* C27: the note about the roles an updating member holds, made on the first
\* reply of an update session, is an entry of its own in the history: no
\* entry has the system role, and no user entry carries the note together
\* with the user's input.
C27_ContextNoteSeparateEntry ==
    \A t \in Tasks :
        \A i \in 1..Len(conversation_history[t]) :
            LET entry == conversation_history[t][i]
            IN  /\ entry.role \in {"user", "assistant"}
                /\ entry.role = "user"
                   => entry.note \notin {"current_roles_note", "verified_only_note",
                                         "initiating_note"}

\* C28: whenever a session is going on, the taxonomy it reads is one whole
\* value: the id -> name lookup is the one built from the category mapping
\* that is in place, never the lookup of the mapping before a rebuild.
C28_TaxonomyReadAtomically ==
    \A t \in Tasks :
        pc[t] \in HandlerPcs \cup ConcludePcs
        => server_roles_map = update_server_roles_map(categorized_server_roles, guild_roles)

\* C29: a message of another user, a message in another channel, a system
\* message or a blank message is never returned by a session's reply wait, so
\* it issues no request to the gateway and changes neither retries_left nor
\* conversation_history of that session; a message of the session's user in
\* their DM channel is always returned to the session, and a pending gateway
\* call always returns, whatever the sessions of other users are doing; a step
\* of one session leaves the other sessions' position, retries_left,
\* conversation_history and request unchanged.
C29_OnlyOwnReplyAdvances ==
    /\ [](\A t \in Tasks :
            /\ pc[t] = "wait_for"
               => \A m \in Messages :
                      (ENABLED on_message(t, m))
                      <=> (/\ m.author = member[t]
                           /\ m.channel = member[t]
                           /\ ~m.is_system
                           /\ m.content = "text")
            /\ pc[t] = "await_guidance" => ENABLED guidance_returns(t))
    /\ [][\A t \in Tasks, s \in Tasks :
            (s # t /\ pc'[s] # pc[s])
            => /\ pc'[t] = pc[t]
               /\ retries_left'[t] = retries_left[t]
               /\ conversation_history'[t] = conversation_history[t]
               /\ request'[t] = request[t]]_vars

\* one user's session has replied, been answered by the gateway and entered its
\* conclusion while the session of the other user still waits for its first
\* reply
C29_Witness ==
    \E t \in Tasks, s \in Tasks :
        /\ s # t
        /\ pc[t] = "wait_for"
        /\ conversation_history[t] = <<OpeningEntry>>
        /\ ~request[t].issued
        /\ pc[s] \in ConcludePcs
        /\ conclude_args[s].reason # "inactive"

\* C30: when a send to the user is refused (discord.Forbidden) in the middle of
\* a session - the relay of the guidance text, the request to rephrase, or the
\* timeout notice - the same step enters the conclusion with failure: the
\* user's entry has left active_verifications, no request to the gateway is
\* pending, the conclusion does not await the LLM summary, and from the
\* conclusion the task never comes back to a reply wait or a gateway call.
C30_RefusedSendConcludes ==
    [][\A t \in Tasks :
         LET refused ==
                 \/ /\ pc[t] = "await_guidance"
                    /\ turn'[t].processed
                    /\ ~turn'[t].relayed
                    /\ outcome'[t].last_dm = "none"
                 \/ /\ pc[t] = "wait_for"
                    /\ pc'[t] \notin {"wait_for", "await_guidance", "done"}
                    /\ outcome'[t].last_dm = "none"
         IN  /\ refused
                => /\ pc'[t] \in ConcludePcs \ {"conclude_summary"}
                   /\ ~conclude_args'[t].success
                   /\ conclude_args'[t].dm_refused
                   /\ active_verifications'[member[t]] = NoTask
                   /\ ~request'[t].issued
             /\ (pc[t] \in ConcludePcs /\ conclude_args[t].dm_refused)
                => /\ pc'[t] \in (ConcludePcs \ {"conclude_summary"}) \cup {"done"}
                   /\ ~request'[t].issued]_vars

\* the relay of a guidance that asks for more was refused with retries left,
\* and the session is in its conclusion with failure
C30_Witness ==
    \E t \in Tasks :
        /\ pc[t] \in ConcludePcs
        /\ conclude_args[t].reason = "dm_failed_mid"
        /\ turn[t].processed
        /\ ~turn[t].none
        /\ ~turn[t].user_has_confirmed
        /\ turn[t].retries_before > 1
        /\ ~turn[t].relayed

C32_NoRoleMutationMidSession ==
    [][\A t \in Tasks :
         (/\ pc[t] \in {"wait_for", "await_guidance"}
          /\ active_verifications[member[t]] = t)
         => member_roles'[member[t]] = member_roles[member[t]]]_vars

\* C37: a member who holds the in-progress marker while their session is
\* stored and has not concluded still holds it after every step.
C37_MarkerHeldUntilConclusion ==
    [][\A t \in Tasks :
         (/\ pc[t] \in {"start_send_dm", "wait_for", "await_guidance"}
          /\ active_verifications[member[t]] = t
          /\ VERIFICATION_IN_PROGRESS_ROLE_ID \in member_roles[member[t]])
         => VERIFICATION_IN_PROGRESS_ROLE_ID \in member_roles'[member[t]]]_vars

\* C33: retries_left of every task lies between 0 and
\* settings.VERIFICATION_RETRIES and is at least 1 while the task waits for a
\* reply; the step that stores a session sets it to
\* settings.VERIFICATION_RETRIES, and no later step of the task increases it.
C33_RetriesLeftRange ==
    /\ [](\A t \in Tasks :
            /\ retries_left[t] \in 0..settings.VERIFICATION_RETRIES
            /\ pc[t] = "wait_for" => retries_left[t] >= 1)
    /\ [][\A t \in Tasks :
            /\ (pc[t] = "idle" /\ pc'[t] \in HandlerPcs)
               => retries_left'[t] = settings.VERIFICATION_RETRIES
            /\ pc[t] # "idle" => retries_left'[t] <= retries_left[t]]_vars

\* a session that has used two of its three retries waits for a reply
C33_Witness ==
    \E t \in Tasks :
        /\ pc[t] = "wait_for"
        /\ settings.VERIFICATION_RETRIES = 3
        /\ retries_left[t] = 1
        /\ turn[t].processed
        /\ turn[t].retries_before = 2

\* C34: a guidance with unassignable_skills entries whose send is not refused
\* has its text relayed, one admin alert attempted per entry, and ends as the
\* same guidance without entries would: with success when confirmed, else
\* with failure when the last retry is used, else in the next reply wait.
C34_AlertsDoNotChangeOutcome ==
    [][\A t \in Tasks :
         (/\ pc[t] = "await_guidance"
          /\ turn'[t].processed
          /\ ~turn'[t].none
          /\ turn'[t].unassignable > 0
          /\ outcome'[t].last_dm # "none")
         => /\ turn'[t].relayed
            /\ turn'[t].alerts = turn'[t].unassignable
            /\ turn'[t].transition =
                   IF turn'[t].user_has_confirmed THEN "success"
                   ELSE IF turn'[t].retries_before <= 1 THEN "failure"
                   ELSE "wait_for"]_vars

\* C35 as stated: the role set a successful conclusion is called with is the
\* union of the category lists of the confirming guidance's classification
\* (empty for a null classification).
C35_FlattenedUnion ==
    [][\A t \in Tasks :
         (pc[t] = "await_guidance" /\ pc'[t] \in ConcludePcs /\ conclude_args'[t].success)
         => conclude_args'[t].assigned =
                IF turn'[t].classification.is_null THEN {}
                ELSE SeqToSet(turn'[t].classification.Programming_Language)
                     \cup SeqToSet(turn'[t].classification.Operating_System)]_vars

\* C35: the role set a successful conclusion is called with is the union of
\* the category lists of the confirming guidance's classification, duplicates
\* collapsed and empty for a null classification, restricted to the ids that
\* resolve to a role of the guild; the classification stored by earlier turns
\* has no part in it.
C35_FlattenedUnionOfLiveIds ==
    [][\A t \in Tasks :
         (pc[t] = "await_guidance" /\ pc'[t] \in ConcludePcs /\ conclude_args'[t].success)
         => conclude_args'[t].assigned =
                IF turn'[t].classification.is_null THEN {}
                ELSE (SeqToSet(turn'[t].classification.Programming_Language)
                      \cup SeqToSet(turn'[t].classification.Operating_System))
                     \cap guild_roles]_vars

\* a guidance that lists role 1 twice and a role of a second category is
\* confirmed after an earlier turn, and the conclusion is called with both
\* roles
C35_Witness ==
    \E t \in Tasks :
        /\ Prepared(t)
        /\ conclude_args[t].success
        /\ turn[t].processed
        /\ turn[t].retries_before < settings.VERIFICATION_RETRIES
        /\ turn[t].classification.Programming_Language = <<1, 1>>
        /\ turn[t].classification.Operating_System = <<NumSkillRoles>>
        /\ conclude_args[t].assigned = {1, NumSkillRoles}

\* C36: the sets a conclusion computes are minimal against the roles the
\* member holds at that moment - nothing held is in the add-set, everything in
\* the remove-set is held, and the two sets are disjoint - and remove_roles
\* and add_roles are awaited only for a non-empty set.
C36_MinimalDelta ==
    /\ [](\A t \in Tasks :
            /\ pc[t] = "conclude_remove" => conclude_args[t].to_remove # {}
            /\ pc[t] = "conclude_add" => conclude_args[t].to_add # {})
    /\ [][\A t \in Tasks :
            (pc[t] \in HandlerPcs /\ pc'[t] \in ConcludePcs)
            => /\ conclude_args'[t].to_add \cap member_roles[member[t]] = {}
               /\ conclude_args'[t].to_remove \subseteq member_roles[member[t]]
               /\ conclude_args'[t].to_add \cap conclude_args'[t].to_remove = {}]_vars

\* a successful conclusion for a member who already holds a proposed role:
\* that role is in neither set, another proposed role is added, and a held
\* role is removed
C36_Witness ==
    \E t \in Tasks :
        /\ Prepared(t)
        /\ conclude_args[t].success
        /\ \E r \in conclude_args[t].assigned \cap Held(t) :
               r \notin conclude_args[t].to_add \cup conclude_args[t].to_remove
        /\ conclude_args[t].to_add \cap SkillRoles # {}
        /\ conclude_args[t].to_remove # {}

\* C38: once the role calls of a conclusion have all returned (or none was
\* needed), the member does not hold both the verified and the unverified
\* role.
C38_NotVerifiedAndUnverified ==
    \A t \in Tasks :
        (/\ pc[t] = "conclude_notify"
         /\ conclude_args[t].role_calls \in {"ok", "prepared"})
        => ~({VERIFIED_ROLE_ID, UNVERIFIED_ROLE_ID} \subseteq Held(t))

\* C39: an admin notification titled "New User Verified" or "User Roles
\* Updated" has been sent only if the verified role resolves in the guild and
\* the member holds it when the conclusion is over.
C39_VerifiedNotificationMeansVerified ==
    \A t \in Tasks :
        (/\ pc[t] = "done"
         /\ outcome[t].result \in {"new_user_verified", "roles_updated"})
        => /\ VERIFIED_ROLE_ID \in guild_roles
           /\ VERIFIED_ROLE_ID \in Held(t)

\* C40: a rebuild that ends without a new categorization leaves the taxonomy
\* in memory as it was; in particular a non-empty taxonomy is replaced by a
\* non-empty result of the categorization only, and is never emptied.
C40_FailedRebuildKeepsTaxonomy ==
    [][categorized_server_roles # EmptyTaxonomy
       => categorized_server_roles' # EmptyTaxonomy]_vars

====
